---------------------------- MODULE Spec2Model ----------------------------
(***************************************************************************)
(* A model of package module (module/module.go): the path grammar checks,  *)
(* the major-version suffix splitter, the escape/unescape codec, the       *)
(* canonical version and the ordering used by Sort.                        *)
(*                                                                         *)
(* A Go string is modelled as a sequence of runes.  An ASCII rune is the   *)
(* one-character string that holds it; "U+00E9" and "U+00D7" are two       *)
(* non-ASCII runes (a letter and a non-letter) and "xFF" is a byte that is *)
(* not valid UTF-8, which a range loop reads as utf8.RuneError.  The code  *)
(* indexes bytes only to compare them with ASCII characters and slices     *)
(* only at ASCII characters, so a rune stands for its bytes.  Go's offsets *)
(* are kept: s[:k] is SubSeq(s, 1, k), s[k:] is SubSeq(s, k+1, Len(s)) and *)
(* the byte s[k] is s[k+1] here.                                           *)
(***************************************************************************)
EXTENDS Integers, Sequences, FiniteSets, TLC

VARIABLES
    pc,     \* the calls made so far ("start": none yet)
    arg1,   \* the first argument of the call under study
    arg2,   \* the second argument (a second input, or a version)
    ret1,   \* what the first call returned
    ret2    \* what the second call returned

vars == <<pc, arg1, arg2, ret1, ret2>>

-----------------------------------------------------------------------------
(* Runes *)

Lower ==
    << "a", "b", "c", "d", "e", "f", "g", "h", "i", "j", "k", "l", "m",
       "n", "o", "p", "q", "r", "s", "t", "u", "v", "w", "x", "y", "z" >>

Upper ==
    << "A", "B", "C", "D", "E", "F", "G", "H", "I", "J", "K", "L", "M",
       "N", "O", "P", "Q", "R", "S", "T", "U", "V", "W", "X", "Y", "Z" >>

Digit == << "0", "1", "2", "3", "4", "5", "6", "7", "8", "9" >>

\* The printable ASCII characters in code order, U+0020 to U+007E; the grave
\* accent is written "U+0060".
Ascii ==
    << " ", "!", "\"", "#", "$", "%", "&", "'", "(", ")", "*", "+", ",",
       "-", ".", "/" >> \o Digit \o
    << ":", ";", "<", "=", ">", "?", "@" >> \o Upper \o
    << "[", "\\", "]", "^", "_", "U+0060" >> \o Lower \o
    << "{", "|", "}", "~" >>

AsciiRunes == { Ascii[i] : i \in DOMAIN Ascii }

\* "U+00E9" (e acute, a letter), "U+00D7" (the multiplication sign, not a
\* letter) and "xFF" (an invalid byte, read as utf8.RuneError U+FFFD).
OtherRunes == { "U+00E9", "U+00D7", "xFF" }

CodeTable ==
    [ r \in AsciiRunes \cup OtherRunes |->
        IF r \in AsciiRunes
        THEN 31 + (CHOOSE i \in DOMAIN Ascii : Ascii[i] = r)
        ELSE IF r = "U+00E9" THEN 233
        ELSE IF r = "U+00D7" THEN 215
        ELSE 65533 ]

\* The code point of rune r.
Code(r) == CodeTable[r]

RuneSelf == 128

InRange(lo, r, hi) == Code(lo) <= Code(r) /\ Code(r) <= Code(hi)

\* r+'a'-'A' and r+'A'-'a' for an ASCII letter r.
ToLower(r) == Ascii[(Code(r) + Code("a") - Code("A")) - 31]
ToUpper(r) == Ascii[(Code(r) + Code("A") - Code("a")) - 31]

\* unicode.IsLetter, on the runes of the model.
IsLetter(r) == InRange("A", r, "Z") \/ InRange("a", r, "z") \/ r = "U+00E9"

-----------------------------------------------------------------------------
(* Package strings and utf8 *)

HasPrefix(s, p) == Len(s) >= Len(p) /\ SubSeq(s, 1, Len(p)) = p

HasSuffix(s, p) == Len(s) >= Len(p) /\ SubSeq(s, Len(s) - Len(p) + 1, Len(s)) = p

Contains(s, sub) ==
    \E k \in 0 .. (Len(s) - Len(sub)) : SubSeq(s, k + 1, k + Len(sub)) = sub

\* strings.Index: the offset of the first sub in s, or -1.
Index(s, sub) ==
    IF Contains(s, sub)
    THEN CHOOSE k \in 0 .. (Len(s) - Len(sub)) :
            /\ SubSeq(s, k + 1, k + Len(sub)) = sub
            /\ \A j \in 0 .. (k - 1) : SubSeq(s, j + 1, j + Len(sub)) # sub
    ELSE -1

Count(s, r) == Cardinality({ k \in DOMAIN s : s[k] = r })

TrimSuffix(s, p) == IF HasSuffix(s, p) THEN SubSeq(s, 1, Len(s) - Len(p)) ELSE s

ValidString(s) == \A k \in DOMAIN s : s[k] # "xFF"

\* strings.EqualFold on ASCII names.
Fold(r) == IF InRange("A", r, "Z") THEN ToLower(r) ELSE r
EqualFold(s, t) == Len(s) = Len(t) /\ \A k \in DOMAIN s : Fold(s[k]) = Fold(t[k])

\* string comparison s < t, byte by byte.
RECURSIVE StrLess(_, _)
StrLess(s, t) ==
    IF t = << >> THEN FALSE
    ELSE IF s = << >> THEN TRUE
    ELSE IF Head(s) # Head(t) THEN Code(Head(s)) < Code(Head(t))
    ELSE StrLess(Tail(s), Tail(t))

-----------------------------------------------------------------------------
(* The path grammar *)

Nil == "nil"

firstPathOK(r) ==
    r = "-" \/ r = "." \/ InRange("0", r, "9") \/ InRange("a", r, "z")

pathOK(r) ==
    IF Code(r) < RuneSelf
    THEN r = "+" \/ r = "-" \/ r = "." \/ r = "_" \/ r = "~"
         \/ InRange("0", r, "9") \/ InRange("A", r, "Z") \/ InRange("a", r, "z")
    ELSE FALSE

fileNameAllowed ==
    << "!", "#", "$", "%", "&", "(", ")", "+", ",", "-", ".", "=", "@", "[",
       "]", "^", "_", "{", "}", "~", " " >>

fileNameOK(r) ==
    IF Code(r) < RuneSelf
    THEN IF InRange("0", r, "9") \/ InRange("A", r, "Z") \/ InRange("a", r, "z")
         THEN TRUE
         ELSE \E k \in DOMAIN fileNameAllowed : fileNameAllowed[k] = r
    ELSE IsLetter(r)

badWindowsNames ==
    << <<"C", "O", "N">>, <<"P", "R", "N">>, <<"A", "U", "X">>, <<"N", "U", "L">> >>
    \o [ k \in 1 .. 9 |-> <<"C", "O", "M", Digit[k + 1]>> ]
    \o [ k \in 1 .. 9 |-> <<"L", "P", "T", Digit[k + 1]>> ]

\* A mutation of checkElem: the whole element, not its portion before the
\* first dot, is compared with the reserved names.
checkElemWholeName(elem, fileName) ==
    IF elem = << >> THEN "empty path element"
    ELSE IF Count(elem, ".") = Len(elem) THEN "invalid path element"
    ELSE IF elem[1] = "." /\ ~fileName THEN "leading dot in path element"
    ELSE IF elem[Len(elem)] = "." THEN "trailing dot in path element"
    ELSE IF \E k \in DOMAIN elem :
                ~(IF fileName THEN fileNameOK(elem[k]) ELSE pathOK(elem[k]))
         THEN "invalid char"
    ELSE IF \E k \in DOMAIN badWindowsNames : EqualFold(badWindowsNames[k], elem)
         THEN "disallowed as path element component on Windows"
         ELSE Nil

checkElem(elem, fileName) ==
    IF elem = << >> THEN "empty path element"
    ELSE IF Count(elem, ".") = Len(elem) THEN "invalid path element"
    ELSE IF elem[1] = "." /\ ~fileName THEN "leading dot in path element"
    ELSE IF elem[Len(elem)] = "." THEN "trailing dot in path element"
    ELSE IF \E k \in DOMAIN elem :
                ~(IF fileName THEN fileNameOK(elem[k]) ELSE pathOK(elem[k]))
         THEN "invalid char"
    ELSE LET i == Index(elem, <<".">>)
             short == IF i >= 0 THEN SubSeq(elem, 1, i) ELSE elem
         IN  IF \E k \in DOMAIN badWindowsNames : EqualFold(badWindowsNames[k], short)
             THEN "disallowed as path element component on Windows"
             ELSE Nil

\* The loop of checkPath from offset i on, the current element starting at
\* offset elemStart, and the check of the last element after it.
RECURSIVE checkPathElems(_, _, _, _)
checkPathElems(path, elemStart, i, fileName) ==
    IF i >= Len(path)
    THEN checkElem(SubSeq(path, elemStart + 1, Len(path)), fileName)
    ELSE IF path[i + 1] = "/"
         THEN LET err == checkElem(SubSeq(path, elemStart + 1, i), fileName)
              IN  IF err # Nil THEN err
                  ELSE checkPathElems(path, i + 1, i + 1, fileName)
         ELSE checkPathElems(path, elemStart, i + 1, fileName)

checkPath(path, fileName) ==
    IF ~ValidString(path) THEN "invalid UTF-8"
    ELSE IF path = << >> THEN "empty string"
    ELSE IF Contains(path, <<".", ".">>) THEN "double dot"
    ELSE IF Contains(path, <<"/", "/">>) THEN "double slash"
    ELSE IF path[Len(path)] = "/" THEN "trailing slash"
    ELSE checkPathElems(path, 0, 0, fileName)

CheckImportPath(path) == checkPath(path, FALSE)

CheckFilePath(path) == checkPath(path, TRUE)

-----------------------------------------------------------------------------
(* The major-version suffix splitter *)

GopkgIn == <<"g", "o", "p", "k", "g", ".", "i", "n", "/">>

Unstable == <<"-", "u", "n", "s", "t", "a", "b", "l", "e">>

\* The offset the loop "for i > 0 && ok(path[i-1]) { i-- }" ends at, where
\* ok is a digit, or with dots a digit or a dot.
RECURSIVE ScanBack(_, _, _)
ScanBack(path, i, dots) ==
    IF i > 0 /\ (InRange("0", path[i], "9") \/ (dots /\ path[i] = "."))
    THEN ScanBack(path, i - 1, dots)
    ELSE i

splitGopkgIn(path) ==
    IF ~HasPrefix(path, GopkgIn)
    THEN [prefix |-> path, pathMajor |-> << >>, ok |-> FALSE]
    ELSE LET i0 == IF HasSuffix(path, Unstable)
                   THEN Len(path) - Len(Unstable) ELSE Len(path)
             i == ScanBack(path, i0, FALSE)
         IN  IF i <= 1 \/ path[i] # "v" \/ path[i - 1] # "."
             THEN [prefix |-> path, pathMajor |-> << >>, ok |-> FALSE]
             ELSE LET prefix == SubSeq(path, 1, i - 2)
                      pathMajor == SubSeq(path, i - 1, Len(path))
                  IN  IF Len(pathMajor) <= 2
                         \/ (pathMajor[3] = "0" /\ pathMajor # <<".", "v", "0">>)
                      THEN [prefix |-> path, pathMajor |-> << >>, ok |-> FALSE]
                      ELSE [prefix |-> prefix, pathMajor |-> pathMajor, ok |-> TRUE]

\* A mutation of SplitPathVersion: the suffix "/v1" is not rejected.
SplitPathVersionWithV1(path) ==
    IF HasPrefix(path, GopkgIn) THEN splitGopkgIn(path)
    ELSE LET i == ScanBack(path, Len(path), TRUE)
             dot == \E k \in (i + 1) .. Len(path) : path[k] = "."
         IN  IF i <= 1 \/ i = Len(path) \/ path[i] # "v" \/ path[i - 1] # "/"
             THEN [prefix |-> path, pathMajor |-> << >>, ok |-> TRUE]
             ELSE LET prefix == SubSeq(path, 1, i - 2)
                      pathMajor == SubSeq(path, i - 1, Len(path))
                  IN  IF dot \/ Len(pathMajor) <= 2 \/ pathMajor[3] = "0"
                      THEN [prefix |-> path, pathMajor |-> << >>, ok |-> FALSE]
                      ELSE [prefix |-> prefix, pathMajor |-> pathMajor, ok |-> TRUE]

SplitPathVersion(path) ==
    IF HasPrefix(path, GopkgIn) THEN splitGopkgIn(path)
    ELSE LET i == ScanBack(path, Len(path), TRUE)
             dot == \E k \in (i + 1) .. Len(path) : path[k] = "."
         IN  IF i <= 1 \/ i = Len(path) \/ path[i] # "v" \/ path[i - 1] # "/"
             THEN [prefix |-> path, pathMajor |-> << >>, ok |-> TRUE]
             ELSE LET prefix == SubSeq(path, 1, i - 2)
                      pathMajor == SubSeq(path, i - 1, Len(path))
                  IN  IF dot \/ Len(pathMajor) <= 2 \/ pathMajor[3] = "0"
                         \/ pathMajor = <<"/", "v", "1">>
                      THEN [prefix |-> path, pathMajor |-> << >>, ok |-> FALSE]
                      ELSE [prefix |-> prefix, pathMajor |-> pathMajor, ok |-> TRUE]

CheckPath(path) ==
    IF checkPath(path, FALSE) # Nil THEN "malformed module path"
    ELSE LET j == Index(path, <<"/">>)
             i == IF j < 0 THEN Len(path) ELSE j
         IN  IF i = 0 THEN "leading slash"
             ELSE IF ~Contains(SubSeq(path, 1, i), <<".">>)
                  THEN "missing dot in first path element"
             ELSE IF path[1] = "-" THEN "leading dash in first path element"
             ELSE IF \E k \in 1 .. i : ~firstPathOK(path[k])
                  THEN "invalid char in first path element"
             ELSE IF ~SplitPathVersion(path).ok THEN "invalid version"
             ELSE Nil

-----------------------------------------------------------------------------
(* The escape/unescape codec.  A call returns [err, val]: err is Nil and   *)
(* val the string returned, or err is the error and val is empty.          *)

Fail(e) == [err |-> e, val |-> << >>]

Ok(s) == [err |-> Nil, val |-> s]

\* A mutation of escapeLoop: the lower-case letter is written without "!".
RECURSIVE escapeLoopNoBang(_)
escapeLoopNoBang(s) ==
    IF s = << >> THEN << >>
    ELSE IF InRange("A", Head(s), "Z")
         THEN <<ToLower(Head(s))>> \o escapeLoopNoBang(Tail(s))
         ELSE <<Head(s)>> \o escapeLoopNoBang(Tail(s))

\* The second loop of escapeString: "!" and the lower-case letter for an
\* upper-case letter, the rune itself for any other.
RECURSIVE escapeLoop(_)
escapeLoop(s) ==
    IF s = << >> THEN << >>
    ELSE IF InRange("A", Head(s), "Z")
         THEN <<"!", ToLower(Head(s))>> \o escapeLoop(Tail(s))
         ELSE <<Head(s)>> \o escapeLoop(Tail(s))

\* A mutation of escapeString: a rune outside ASCII is not refused.
escapeStringAnyRune(s) ==
    IF \E k \in DOMAIN s : s[k] = "!"
    THEN Fail("internal error: inconsistency in EscapePath")
    ELSE LET haveUpper == \E k \in DOMAIN s : InRange("A", s[k], "Z")
         IN  IF ~haveUpper THEN Ok(s) ELSE Ok(escapeLoop(s))

escapeString(s) ==
    IF \E k \in DOMAIN s : s[k] = "!" \/ Code(s[k]) >= RuneSelf
    THEN Fail("internal error: inconsistency in EscapePath")
    ELSE LET haveUpper == \E k \in DOMAIN s : InRange("A", s[k], "Z")
         IN  IF ~haveUpper THEN Ok(s) ELSE Ok(escapeLoop(s))

EscapePath(path) ==
    IF CheckPath(path) # Nil THEN Fail(CheckPath(path))
    ELSE escapeString(path)

EscapeVersion(v) ==
    IF checkElem(v, TRUE) # Nil \/ Contains(v, <<"!">>)
    THEN Fail("disallowed version string")
    ELSE escapeString(v)

\* A mutation of unescapeLoop: an upper-case letter outside a "!" pair is
\* copied, not refused.
RECURSIVE unescapeLoopWithUpper(_, _, _)
unescapeLoopWithUpper(escaped, bang, buf) ==
    IF escaped = << >> THEN [ok |-> TRUE, buf |-> buf, bang |-> bang]
    ELSE LET r == Head(escaped)
         IN  IF Code(r) >= RuneSelf
             THEN [ok |-> FALSE, buf |-> << >>, bang |-> bang]
             ELSE IF bang
                  THEN IF Code(r) < Code("a") \/ Code("z") < Code(r)
                       THEN [ok |-> FALSE, buf |-> << >>, bang |-> bang]
                       ELSE unescapeLoopWithUpper(Tail(escaped), FALSE,
                                                  Append(buf, ToUpper(r)))
             ELSE IF r = "!"
                  THEN unescapeLoopWithUpper(Tail(escaped), TRUE, buf)
             ELSE unescapeLoopWithUpper(Tail(escaped), FALSE, Append(buf, r))

\* The loop of unescapeString on what is left of escaped, with the bang flag
\* and the buffer so far: [ok, buf, bang] when the loop ends.
RECURSIVE unescapeLoop(_, _, _)
unescapeLoop(escaped, bang, buf) ==
    IF escaped = << >> THEN [ok |-> TRUE, buf |-> buf, bang |-> bang]
    ELSE LET r == Head(escaped)
         IN  IF Code(r) >= RuneSelf
             THEN [ok |-> FALSE, buf |-> << >>, bang |-> bang]
             ELSE IF bang
                  THEN IF Code(r) < Code("a") \/ Code("z") < Code(r)
                       THEN [ok |-> FALSE, buf |-> << >>, bang |-> bang]
                       ELSE unescapeLoop(Tail(escaped), FALSE, Append(buf, ToUpper(r)))
             ELSE IF r = "!"
                  THEN unescapeLoop(Tail(escaped), TRUE, buf)
             ELSE IF InRange("A", r, "Z")
                  THEN [ok |-> FALSE, buf |-> << >>, bang |-> bang]
             ELSE unescapeLoop(Tail(escaped), FALSE, Append(buf, r))

\* [ok, val]
unescapeString(escaped) ==
    LET l == unescapeLoop(escaped, FALSE, << >>)
    IN  IF ~l.ok THEN [ok |-> FALSE, val |-> << >>]
        ELSE IF l.bang THEN [ok |-> FALSE, val |-> << >>]
        ELSE [ok |-> TRUE, val |-> l.buf]

UnescapePath(escaped) ==
    LET u == unescapeString(escaped)
    IN  IF ~u.ok THEN Fail("invalid escaped module path")
        ELSE IF CheckPath(u.val) # Nil THEN Fail("invalid escaped module path")
        ELSE Ok(u.val)

UnescapeVersion(escaped) ==
    LET u == unescapeString(escaped)
    IN  IF ~u.ok THEN Fail("invalid escaped version")
        ELSE IF checkElem(u.val, TRUE) # Nil THEN Fail("invalid escaped version")
        ELSE Ok(u.val)

-----------------------------------------------------------------------------
(* Package semver, the collaborator that parses and compares versions:     *)
(* IsValid, Major, Build, Canonical and Compare, over one parser.          *)

\* The offset of the first rune of v at or after offset i that is not a digit.
RECURSIVE digitsEnd(_, _)
digitsEnd(v, i) ==
    IF i < Len(v) /\ InRange("0", v[i + 1], "9") THEN digitsEnd(v, i + 1) ELSE i

\* A decimal number with no leading zero at the start of v: [ok, t, rest].
parseInt(v) ==
    IF v = << >> \/ ~InRange("0", v[1], "9")
    THEN [ok |-> FALSE, t |-> << >>, rest |-> << >>]
    ELSE LET i == digitsEnd(v, 1)
         IN  IF v[1] = "0" /\ i # 1
             THEN [ok |-> FALSE, t |-> << >>, rest |-> << >>]
             ELSE [ok |-> TRUE, t |-> SubSeq(v, 1, i), rest |-> SubSeq(v, i + 1, Len(v))]

isIdentChar(r) ==
    InRange("A", r, "Z") \/ InRange("a", r, "z") \/ InRange("0", r, "9") \/ r = "-"

\* A number with a leading zero.
isBadNum(v) == digitsEnd(v, 0) = Len(v) /\ Len(v) > 1 /\ v[1] = "0"

isNum(v) == digitsEnd(v, 0) = Len(v)

\* The dot-separated identifiers of body are not empty and, with nums, are
\* not numbers with a leading zero; every rune is an identifier rune or a dot.
identsOK(body, nums) ==
    /\ body # << >>
    /\ \A k \in DOMAIN body : isIdentChar(body[k]) \/ body[k] = "."
    /\ body[1] # "." /\ body[Len(body)] # "."
    /\ ~Contains(body, <<".", ".">>)
    /\ nums =>
        \A a \in 1 .. Len(body) : \A b \in a .. Len(body) :
            ( /\ (a = 1 \/ body[a - 1] = ".")
              /\ (b = Len(body) \/ body[b + 1] = ".")
              /\ \A k \in a .. b : body[k] # "." )
            => ~isBadNum(SubSeq(body, a, b))

\* "-" and the pre-release identifiers at the start of v, up to a "+".
parsePrerelease(v) ==
    LET p == Index(v, <<"+">>)
        i == IF p < 0 THEN Len(v) ELSE p
    IN  IF v = << >> \/ v[1] # "-" \/ ~identsOK(SubSeq(v, 2, i), TRUE)
        THEN [ok |-> FALSE, t |-> << >>, rest |-> << >>]
        ELSE [ok |-> TRUE, t |-> SubSeq(v, 1, i), rest |-> SubSeq(v, i + 1, Len(v))]

\* "+" and the build identifiers, to the end of v.
parseBuild(v) ==
    IF v = << >> \/ v[1] # "+" \/ ~identsOK(Tail(v), FALSE)
    THEN [ok |-> FALSE, t |-> << >>, rest |-> << >>]
    ELSE [ok |-> TRUE, t |-> v, rest |-> << >>]

BadVersion ==
    [ok |-> FALSE, major |-> << >>, minor |-> << >>, patch |-> << >>,
     short |-> << >>, prerelease |-> << >>, build |-> << >>]

\* The version once its pre-release pre and its build bld are parsed.
parsedVersion(major, minor, patch, pre, bld) ==
    IF ~pre.ok \/ ~bld.ok \/ bld.rest # << >> THEN BadVersion
    ELSE [ok |-> TRUE, major |-> major, minor |-> minor, patch |-> patch,
          short |-> << >>, prerelease |-> pre.t, build |-> bld.t]

\* The optional build after the pre-release pre.
parseTailBuild(major, minor, patch, pre) ==
    parsedVersion(major, minor, patch, pre,
                  IF pre.ok /\ pre.rest # << >> /\ pre.rest[1] = "+"
                  THEN parseBuild(pre.rest)
                  ELSE [ok |-> pre.ok, t |-> << >>, rest |-> pre.rest])

\* What follows the patch number: an optional pre-release, an optional build.
parseTail(major, minor, patch, v) ==
    parseTailBuild(major, minor, patch,
                   IF v # << >> /\ v[1] = "-" THEN parsePrerelease(v)
                   ELSE [ok |-> TRUE, t |-> << >>, rest |-> v])

\* After "vMAJOR.MINOR.": pa is the parsed patch number.
parsePatch(major, minor, pa) ==
    IF ~pa.ok THEN BadVersion ELSE parseTail(major, minor, pa.t, pa.rest)

\* After "vMAJOR.": mi is the parsed minor number; "vMAJOR.MINOR" is short
\* for "vMAJOR.MINOR.0".
parseMinor(major, mi) ==
    IF ~mi.ok THEN BadVersion
    ELSE IF mi.rest = << >>
         THEN [ok |-> TRUE, major |-> major, minor |-> mi.t, patch |-> <<"0">>,
               short |-> <<".", "0">>, prerelease |-> << >>, build |-> << >>]
    ELSE IF mi.rest[1] # "." THEN BadVersion
    ELSE parsePatch(major, mi.t, parseInt(Tail(mi.rest)))

\* After "v": ma is the parsed major number; "vMAJOR" is short for
\* "vMAJOR.0.0".
parseMajor(ma) ==
    IF ~ma.ok THEN BadVersion
    ELSE IF ma.rest = << >>
         THEN [ok |-> TRUE, major |-> ma.t, minor |-> <<"0">>, patch |-> <<"0">>,
               short |-> <<".", "0", ".", "0">>, prerelease |-> << >>, build |-> << >>]
    ELSE IF ma.rest[1] # "." THEN BadVersion
    ELSE parseMinor(ma.t, parseInt(Tail(ma.rest)))

parse(v) ==
    IF v = << >> \/ v[1] # "v" THEN BadVersion ELSE parseMajor(parseInt(Tail(v)))

IsValid(v) == parse(v).ok

\* "vMAJOR", or "" for an invalid version.
Major(v) == IF ~parse(v).ok THEN << >> ELSE SubSeq(v, 1, 1 + Len(parse(v).major))

\* "+BUILD", or "" when there is none or the version is invalid.
Build(v) == IF ~parse(v).ok THEN << >> ELSE parse(v).build

Canonical(v) ==
    LET p == parse(v)
    IN  IF ~p.ok THEN << >>
        ELSE IF p.build # << >> THEN SubSeq(v, 1, Len(v) - Len(p.build))
        ELSE IF p.short # << >> THEN v \o p.short
        ELSE v

compareInt(x, y) ==
    IF x = y THEN 0
    ELSE IF Len(x) < Len(y) THEN -1
    ELSE IF Len(x) > Len(y) THEN 1
    ELSE IF StrLess(x, y) THEN -1
    ELSE 1

\* The offset of the first "." of x, or its length.
identEnd(x) == IF Index(x, <<".">>) < 0 THEN Len(x) ELSE Index(x, <<".">>)

RECURSIVE comparePrereleaseLoop(_, _)
comparePrereleaseLoop(x, y) ==
    IF x = << >> \/ y = << >>
    THEN IF x = << >> THEN -1 ELSE 1
    ELSE LET x1 == Tail(x)
             y1 == Tail(y)
             dx == SubSeq(x1, 1, identEnd(x1))
             dy == SubSeq(y1, 1, identEnd(y1))
         IN  IF dx # dy
             THEN IF isNum(dx) # isNum(dy)
                  THEN IF isNum(dx) THEN -1 ELSE 1
                  ELSE IF isNum(dx) /\ Len(dx) < Len(dy) THEN -1
                  ELSE IF isNum(dx) /\ Len(dx) > Len(dy) THEN 1
                  ELSE IF StrLess(dx, dy) THEN -1 ELSE 1
             ELSE comparePrereleaseLoop(SubSeq(x1, identEnd(x1) + 1, Len(x1)),
                                        SubSeq(y1, identEnd(y1) + 1, Len(y1)))

comparePrerelease(x, y) ==
    IF x = y THEN 0
    ELSE IF x = << >> THEN 1
    ELSE IF y = << >> THEN -1
    ELSE comparePrereleaseLoop(x, y)

\* Semantic-version precedence: -1, 0 or +1; an invalid version is below
\* every valid one and equal to every invalid one.
Compare(v, w) ==
    LET pv == parse(v)
        pw == parse(w)
    IN  IF ~pv.ok /\ ~pw.ok THEN 0
        ELSE IF ~pv.ok THEN -1
        ELSE IF ~pw.ok THEN 1
        ELSE IF compareInt(pv.major, pw.major) # 0 THEN compareInt(pv.major, pw.major)
        ELSE IF compareInt(pv.minor, pw.minor) # 0 THEN compareInt(pv.minor, pw.minor)
        ELSE IF compareInt(pv.patch, pw.patch) # 0 THEN compareInt(pv.patch, pw.patch)
        ELSE comparePrerelease(pv.prerelease, pw.prerelease)

-----------------------------------------------------------------------------
(* Check, MatchPathMajor, CanonicalVersion *)

Incompatible ==
    <<"+", "i", "n", "c", "o", "m", "p", "a", "t", "i", "b", "l", "e">>

PseudoPrefix == <<"v", "0", ".", "0", ".", "0", "-">>

V0orV1 == <<"v", "0", " ", "o", "r", " ", "v", "1">>

\* A mutation of MatchPathMajor: the major version is compared with the
\* whole of pathMajor, its leading "/" or "." included.
MatchPathMajorWhole(v, pathMajor) ==
    LET pm == IF HasPrefix(pathMajor, <<".", "v">>) /\ HasSuffix(pathMajor, Unstable)
              THEN TrimSuffix(pathMajor, Unstable) ELSE pathMajor
        m == Major(v)
    IN  IF HasPrefix(v, PseudoPrefix) /\ pm = <<".", "v", "1">> THEN TRUE
        ELSE IF pm = << >>
             THEN m = <<"v", "0">> \/ m = <<"v", "1">> \/ Build(v) = Incompatible
        ELSE (pm[1] = "/" \/ pm[1] = ".") /\ m = pm

MatchPathMajor(v, pathMajor) ==
    LET pm == IF HasPrefix(pathMajor, <<".", "v">>) /\ HasSuffix(pathMajor, Unstable)
              THEN TrimSuffix(pathMajor, Unstable) ELSE pathMajor
        m == Major(v)
    IN  IF HasPrefix(v, PseudoPrefix) /\ pm = <<".", "v", "1">> THEN TRUE
        ELSE IF pm = << >>
             THEN m = <<"v", "0">> \/ m = <<"v", "1">> \/ Build(v) = Incompatible
        ELSE (pm[1] = "/" \/ pm[1] = ".") /\ m = Tail(pm)

\* [err, want]: err is Nil, or the error and, for a mismatch, the major
\* version the message asks for.
Check(path, version) ==
    IF CheckPath(path) # Nil THEN [err |-> CheckPath(path), want |-> << >>]
    ELSE IF ~IsValid(version)
         THEN [err |-> "malformed semantic version", want |-> << >>]
    ELSE LET pathMajor == SplitPathVersion(path).pathMajor
         IN  IF ~MatchPathMajor(version, pathMajor)
             THEN LET w == IF pathMajor = << >> THEN V0orV1 ELSE pathMajor
                  IN  [err |-> "mismatched module path and version",
                       want |-> IF w[1] = "." THEN Tail(w) ELSE w]
             ELSE [err |-> Nil, want |-> << >>]

\* A mutation of CanonicalVersion: "+incompatible" is appended to v itself,
\* not to its canonical form.
CanonicalVersionOfV(v) ==
    IF Build(v) = Incompatible THEN v \o Incompatible ELSE Canonical(v)

CanonicalVersion(v) ==
    LET cv == Canonical(v)
    IN  IF Build(v) = Incompatible THEN cv \o Incompatible ELSE cv

-----------------------------------------------------------------------------
(* Sort.  A module.Version is a record [Path, Version]. *)

\* v[:k] and v[k:] for the offset k of the first "/" of v: the semantic
\* version and the file; the whole of v and "" when v has no "/".
VersionPart(v) == IF Index(v, <<"/">>) >= 0 THEN SubSeq(v, 1, Index(v, <<"/">>)) ELSE v

FilePart(v) ==
    IF Index(v, <<"/">>) >= 0 THEN SubSeq(v, Index(v, <<"/">>) + 1, Len(v)) ELSE << >>

\* The less function Sort hands to sort.Slice.
SortLess(mi, mj) ==
    IF mi.Path # mj.Path THEN StrLess(mi.Path, mj.Path)
    ELSE LET vi == VersionPart(mi.Version)
             vj == VersionPart(mj.Version)
             fi == FilePart(mi.Version)
             fj == FilePart(mj.Version)
         IN  IF vi # vj THEN Compare(vi, vj) < 0
             ELSE StrLess(fi, fj)

Swap(list, i, j) == [list EXCEPT ![i] = list[j], ![j] = list[i]]

\* sort.Slice on a list of fewer than seven elements is an insertion sort:
\* "for j := i; j > a && less(j, j-1); j-- { swap(j, j-1) }" for each i.
RECURSIVE insertDown(_, _)
insertDown(list, j) ==
    IF j > 1 /\ SortLess(list[j], list[j - 1])
    THEN insertDown(Swap(list, j, j - 1), j - 1)
    ELSE list

RECURSIVE insertionSort(_, _)
insertionSort(list, i) ==
    IF i > Len(list) THEN list ELSE insertionSort(insertDown(list, i), i + 1)

Sort(list) == insertionSort(list, 2)

-----------------------------------------------------------------------------
(* The inputs.  Each state machine below draws its arguments from the      *)
(* strings made of at most a bounded number of pieces.                     *)

\* The concatenations of at most n strings of T.
RECURSIVE Words(_, _)
Words(T, n) ==
    IF n = 0 THEN { << >> }
    ELSE LET W == Words(T, n - 1) IN W \cup { w \o t : w \in W, t \in T }

Start(a1, a2) ==
    /\ pc = "start"
    /\ arg1 = a1
    /\ arg2 = a2
    /\ ret1 = << >>
    /\ ret2 = << >>

\* The first call returns r.
Returns(name, r) ==
    /\ pc' = name
    /\ ret1' = r
    /\ UNCHANGED <<arg1, arg2, ret2>>

\* The second call returns r.
ReturnsNext(name, r) ==
    /\ pc' = name
    /\ ret2' = r
    /\ UNCHANGED <<arg1, arg2, ret1>>

-----------------------------------------------------------------------------
(* SplitPathVersion on a path *)

MaxSplitLen == 4

SplitHeads == { << >>, <<"a">>, <<"U+00E9">>, GopkgIn, GopkgIn \o <<"a">> }

SplitPieces ==
    { <<"/">>, <<".">>, <<"v">>, <<"0">>, <<"1">>, <<"2">>, <<"a">>, Unstable }

SplitInputs == { h \o w : h \in SplitHeads, w \in Words(SplitPieces, MaxSplitLen) }

InitSplit == \E p \in SplitInputs : Start(p, << >>)

CallSplitPathVersion ==
    /\ pc = "start"
    /\ Returns("SplitPathVersion", SplitPathVersion(arg1))

NextSplit == CallSplitPathVersion

SpecSplit == InitSplit /\ [][NextSplit]_vars

\* The path ends in "/v" and a run of digits and dots, which may be empty.
HasSlashV(path) ==
    \E k \in 1 .. (Len(path) - 1) :
        /\ path[k] = "/" /\ path[k + 1] = "v"
        /\ \A j \in (k + 2) .. Len(path) : InRange("0", path[j], "9") \/ path[j] = "."

\* That run of digits and dots.
SlashVRun(path) ==
    LET k == CHOOSE k \in 1 .. (Len(path) - 1) :
                /\ path[k] = "/" /\ path[k + 1] = "v"
                /\ \A j \in (k + 2) .. Len(path) :
                        InRange("0", path[j], "9") \/ path[j] = "."
    IN  SubSeq(path, k + 2, Len(path))

AllDigits(s) == \A k \in DOMAIN s : InRange("0", s[k], "9")

NoSuffix(path) == [prefix |-> path, pathMajor |-> << >>, ok |-> TRUE]

\* C7 as stated: a path outside gopkg.in that ends in "/v" and a run of
\* digits and dots is rejected when the run holds a dot, is empty, starts
\* with "0" or is "1"; any other path outside gopkg.in comes back whole,
\* with an empty suffix and ok.
C7_AsStated ==
    (pc = "SplitPathVersion" /\ ~HasPrefix(arg1, GopkgIn)) =>
        IF HasSlashV(arg1)
        THEN LET run == SlashVRun(arg1)
             IN  (Contains(run, <<".">>) \/ run = << >> \/ run[1] = "0" \/ run = <<"1">>)
                    => ~ret1.ok
        ELSE ret1 = NoSuffix(arg1)

\* C7 as amended: the run is rejected when it is not empty and holds a dot,
\* starts with "0" or is "1"; a path that ends in a bare "/v", like any path
\* outside gopkg.in with no "/v" ending, comes back whole, with an empty
\* suffix and ok.
C7_GenericRejection ==
    (pc = "SplitPathVersion" /\ ~HasPrefix(arg1, GopkgIn)) =>
        IF HasSlashV(arg1) /\ SlashVRun(arg1) # << >>
        THEN LET run == SlashVRun(arg1)
             IN  (Contains(run, <<".">>) \/ run[1] = "0" \/ run = <<"1">>) => ~ret1.ok
        ELSE ret1 = NoSuffix(arg1)

\* A path that ends in "/v1" was split, and rejected.
C7_Witness ==
    /\ pc = "SplitPathVersion"
    /\ ~HasPrefix(arg1, GopkgIn)
    /\ HasSlashV(arg1)
    /\ SlashVRun(arg1) = <<"1">>
    /\ ret1 = [prefix |-> arg1, pathMajor |-> << >>, ok |-> FALSE]

\* e is ".vN" for a decimal number N with no leading zero ("0" itself is one).
IsDotVN(e) ==
    /\ Len(e) >= 3
    /\ e[1] = "." /\ e[2] = "v"
    /\ AllDigits(SubSeq(e, 3, Len(e)))
    /\ (e[3] # "0" \/ Len(e) = 3)

\* C8: a gopkg.in path is split with ok only when it ends in ".vN" or
\* ".vN-unstable", N a decimal number with no leading zero, and the suffix
\* returned is that ending; any other gopkg.in path is rejected, with an
\* empty suffix.
C8_AsStated ==
    (pc = "SplitPathVersion" /\ HasPrefix(arg1, GopkgIn)) =>
        IF ret1.ok
        THEN /\ HasSuffix(arg1, ret1.pathMajor)
             /\ ret1.prefix \o ret1.pathMajor = arg1
             /\ \/ IsDotVN(ret1.pathMajor)
                \/ /\ HasSuffix(ret1.pathMajor, Unstable)
                   /\ IsDotVN(TrimSuffix(ret1.pathMajor, Unstable))
        ELSE ret1.pathMajor = << >>

\* m is "/vN" for a decimal number N >= 2 with no leading zero and no dot.
IsSlashVN(m) ==
    /\ Len(m) >= 3
    /\ m[1] = "/" /\ m[2] = "v"
    /\ AllDigits(SubSeq(m, 3, Len(m)))
    /\ m[3] # "0"
    /\ m # <<"/", "v", "1">>

\* C9: prefix + pathMajor is the path; a rejection returns the whole path
\* and an empty pathMajor; with ok and a path outside gopkg.in, pathMajor is
\* empty or "/vN" for N >= 2 with no leading zero and no dot.
C9_Decomposition ==
    pc = "SplitPathVersion" =>
        /\ ret1.prefix \o ret1.pathMajor = arg1
        /\ ~ret1.ok => (ret1.pathMajor = << >> /\ ret1.prefix = arg1)
        /\ (ret1.ok /\ ~HasPrefix(arg1, GopkgIn)) =>
                (ret1.pathMajor = << >> \/ IsSlashVN(ret1.pathMajor))

\* A path with a prefix and the suffix "/v10" was split.
C9_Witness ==
    /\ pc = "SplitPathVersion"
    /\ ret1.ok
    /\ ret1.pathMajor = <<"/", "v", "1", "0">>
    /\ ret1.prefix # << >>
    /\ ret1.prefix \o ret1.pathMajor = arg1

-----------------------------------------------------------------------------
(* The codec on one string: an escape and the unescape of its result, and  *)
(* an unescape and the escape of its result, for paths and for versions.   *)

MaxCodecLen == 4

CodecHeads == { << >>, <<"a", ".", "b", "/">> }

CodecPieces == { <<"a">>, <<"A">>, <<"Z">>, <<"!">>, <<".">>, <<"/">>, <<"U+00E9">> }

CodecInputs == { h \o w : h \in CodecHeads, w \in Words(CodecPieces, MaxCodecLen) }

InitCodec == \E p \in CodecInputs : Start(p, << >>)

CallEscapePath ==
    /\ pc = "start"
    /\ Returns("EscapePath", EscapePath(arg1))

CallUnescapePathOfResult ==
    /\ pc = "EscapePath"
    /\ ret1.err = Nil
    /\ ReturnsNext("EscapePath.UnescapePath", UnescapePath(ret1.val))

CallEscapeVersion ==
    /\ pc = "start"
    /\ Returns("EscapeVersion", EscapeVersion(arg1))

CallUnescapeVersionOfResult ==
    /\ pc = "EscapeVersion"
    /\ ret1.err = Nil
    /\ ReturnsNext("EscapeVersion.UnescapeVersion", UnescapeVersion(ret1.val))

CallUnescapePath ==
    /\ pc = "start"
    /\ Returns("UnescapePath", UnescapePath(arg1))

CallEscapePathOfResult ==
    /\ pc = "UnescapePath"
    /\ ret1.err = Nil
    /\ ReturnsNext("UnescapePath.EscapePath", EscapePath(ret1.val))

CallUnescapeVersion ==
    /\ pc = "start"
    /\ Returns("UnescapeVersion", UnescapeVersion(arg1))

CallEscapeVersionOfResult ==
    /\ pc = "UnescapeVersion"
    /\ ret1.err = Nil
    /\ ReturnsNext("UnescapeVersion.EscapeVersion", EscapeVersion(ret1.val))

NextCodec ==
    \/ CallEscapePath
    \/ CallUnescapePathOfResult
    \/ CallEscapeVersion
    \/ CallUnescapeVersionOfResult
    \/ CallUnescapePath
    \/ CallEscapePathOfResult
    \/ CallUnescapeVersion
    \/ CallEscapeVersionOfResult

SpecCodec == InitCodec /\ [][NextCodec]_vars

\* C1: EscapePath succeeds on every path CheckPath accepts, and UnescapePath
\* of its result succeeds and returns the path; UnescapeVersion of the
\* result of a successful EscapeVersion succeeds and returns the version.
C1_ForwardRoundTrip ==
    /\ (pc = "EscapePath" /\ CheckPath(arg1) = Nil) => ret1.err = Nil
    /\ pc = "EscapePath.UnescapePath" => ret2 = Ok(arg1)
    /\ pc = "EscapeVersion.UnescapeVersion" => ret2 = Ok(arg1)

\* A path with an upper-case letter was escaped to another string and
\* unescaped back.
C1_Witness ==
    /\ pc = "EscapePath.UnescapePath"
    /\ ret1.val # arg1
    /\ Contains(ret1.val, <<"!">>)
    /\ ret2 = Ok(arg1)

\* e holds an upper-case letter, a "!" with no lower-case letter after it, or
\* a rune outside ASCII.
IllFormedEscape(e) ==
    \E k \in DOMAIN e :
        \/ InRange("A", e[k], "Z")
        \/ Code(e[k]) >= RuneSelf
        \/ e[k] = "!" /\ (k = Len(e) \/ ~InRange("a", e[k + 1], "z"))

\* C3: EscapePath of the result of a successful UnescapePath succeeds and
\* returns the escaped string, and so for versions; no string with an
\* upper-case letter, a "!" not followed by a lower-case letter, a trailing
\* "!" or a rune outside ASCII is unescaped.
C3_ReverseRoundTrip ==
    /\ pc = "UnescapePath.EscapePath" => ret2 = Ok(arg1)
    /\ pc = "UnescapeVersion.EscapeVersion" => ret2 = Ok(arg1)
    /\ (pc \in {"UnescapePath", "UnescapeVersion"} /\ IllFormedEscape(arg1))
            => ret1.err # Nil

\* An escaped path with a "!" pair was unescaped to another string and
\* escaped back.
C3_Witness ==
    /\ pc = "UnescapePath.EscapePath"
    /\ Contains(arg1, <<"!">>)
    /\ ret1.val # arg1
    /\ ret2 = Ok(arg1)

-----------------------------------------------------------------------------
(* The codec on two strings *)

MaxPairLen == 3

PairPieces == { <<"a", ".", "b", "/">>, <<"a">>, <<"A">>, <<"!">> }

PairInputs == Words(PairPieces, MaxPairLen)

InitPair == \E a \in PairInputs, b \in PairInputs : Start(a, b)

CallEscapePathBoth ==
    /\ pc = "start"
    /\ pc' = "EscapePath2"
    /\ ret1' = EscapePath(arg1)
    /\ ret2' = EscapePath(arg2)
    /\ UNCHANGED <<arg1, arg2>>

CallEscapeVersionBoth ==
    /\ pc = "start"
    /\ pc' = "EscapeVersion2"
    /\ ret1' = EscapeVersion(arg1)
    /\ ret2' = EscapeVersion(arg2)
    /\ UNCHANGED <<arg1, arg2>>

NextPair == CallEscapePathBoth \/ CallEscapeVersionBoth

SpecPair == InitPair /\ [][NextPair]_vars

\* C2: two distinct paths that CheckPath accepts have distinct escaped
\* paths, and two distinct versions that EscapeVersion escapes have distinct
\* escaped versions.
C2_Injective ==
    /\ (pc = "EscapePath2" /\ arg1 # arg2 /\ CheckPath(arg1) = Nil /\ CheckPath(arg2) = Nil)
            => (ret1.err = Nil /\ ret2.err = Nil /\ ret1.val # ret2.val)
    /\ (pc = "EscapeVersion2" /\ arg1 # arg2 /\ ret1.err = Nil /\ ret2.err = Nil)
            => ret1.val # ret2.val

\* Two paths that differ only in the case of a letter were escaped, to two
\* strings that still differ when case is ignored.
C2_Witness ==
    /\ pc = "EscapePath2"
    /\ arg1 # arg2
    /\ EqualFold(arg1, arg2)
    /\ ret1.err = Nil /\ ret2.err = Nil
    /\ ret1.val # ret2.val
    /\ ~EqualFold(ret1.val, ret2.val)

-----------------------------------------------------------------------------
(* Check on a path and a version *)

MaxCheckLen == 3

CheckHeads == { <<"a", ".", "b">>, GopkgIn \o <<"c">> }

CheckPieces == { <<"/", "v">>, <<".", "v">>, <<"0">>, <<"1">>, <<"2">>, Unstable }

CheckPaths == { h \o w : h \in CheckHeads, w \in Words(CheckPieces, MaxCheckLen) }

\* "v", a major number, what follows it and a build: some are not versions.
CheckVersions ==
    { <<"v">> \o major \o rest \o build :
        major \in { <<"0">>, <<"1">>, <<"2">>, <<"1", "0">> },
        rest \in { << >>, <<".", "0", ".", "0">>, <<".", "0", ".", "0", "-", "x">> },
        build \in { << >>, Incompatible, <<"+", "b">> } }

InitCheck == \E p \in CheckPaths, v \in CheckVersions : Start(p, v)

CallCheck ==
    /\ pc = "start"
    /\ Returns("Check", Check(arg1, arg2))

NextCheck == CallCheck

SpecCheck == InitCheck /\ [][NextCheck]_vars

\* The major-version suffix of a path outside gopkg.in that CheckPath
\* accepts: its ending "/vN", N a run of digits, or "" when it has none.
PathSuffix(path) ==
    IF HasSlashV(path) /\ SlashVRun(path) # << >>
    THEN <<"/", "v">> \o SlashVRun(path)
    ELSE << >>

Mismatch == "mismatched module path and version"

\* C4 as stated: for a path outside gopkg.in that CheckPath accepts and a
\* valid version, Check succeeds exactly when the major version is the
\* path's suffix without its "/" or, with no suffix, is v0 or v1; otherwise
\* it returns the mismatch error.
C4_AsStated ==
    (pc = "Check" /\ CheckPath(arg1) = Nil /\ ~HasPrefix(arg1, GopkgIn) /\ IsValid(arg2)) =>
        LET suffix == PathSuffix(arg1)
            match == IF suffix # << >> THEN Major(arg2) = Tail(suffix)
                     ELSE Major(arg2) \in { <<"v", "0">>, <<"v", "1">> }
        IN  IF match THEN ret1.err = Nil ELSE ret1.err = Mismatch

\* C4 as amended: with no suffix, Check also succeeds when the build
\* metadata of the version is "+incompatible".
C4_MajorMatch ==
    (pc = "Check" /\ CheckPath(arg1) = Nil /\ ~HasPrefix(arg1, GopkgIn) /\ IsValid(arg2)) =>
        LET suffix == PathSuffix(arg1)
            match == IF suffix # << >> THEN Major(arg2) = Tail(suffix)
                     ELSE \/ Major(arg2) \in { <<"v", "0">>, <<"v", "1">> }
                          \/ Build(arg2) = Incompatible
        IN  IF match THEN ret1.err = Nil ELSE ret1.err = Mismatch

\* Check accepted a path with no suffix and a v2 version whose build
\* metadata is "+incompatible".
C4_Witness ==
    /\ pc = "Check"
    /\ CheckPath(arg1) = Nil
    /\ ~HasPrefix(arg1, GopkgIn)
    /\ PathSuffix(arg1) = << >>
    /\ IsValid(arg2)
    /\ Major(arg2) = <<"v", "2">>
    /\ Build(arg2) = Incompatible
    /\ ret1.err = Nil

-----------------------------------------------------------------------------
(* CanonicalVersion on a version, and on its result *)

MaxVersionLen == 4

VersionPieces ==
    { <<"v", "1">>, <<".", "2">>, <<".", "2", ".", "3">>, <<"-", "p">>,
      Incompatible, <<"+", "b">> }

VersionInputs == Words(VersionPieces, MaxVersionLen)

InitCanonical == \E v \in VersionInputs : Start(v, << >>)

CallCanonicalVersion ==
    /\ pc = "start"
    /\ Returns("CanonicalVersion", CanonicalVersion(arg1))

CallCanonicalVersionOfResult ==
    /\ pc = "CanonicalVersion"
    /\ ReturnsNext("CanonicalVersion.CanonicalVersion", CanonicalVersion(ret1))

NextCanonical == CallCanonicalVersion \/ CallCanonicalVersionOfResult

SpecCanonical == InitCanonical /\ [][NextCanonical]_vars

\* C10: for a valid version, CanonicalVersion returns semver's canonical
\* form, with "+incompatible" after it exactly when the build metadata of
\* the version is "+incompatible", and CanonicalVersion of that result is the
\* result.
C10_Canonical ==
    /\ (pc = "CanonicalVersion" /\ IsValid(arg1)) =>
            /\ ret1 = Canonical(arg1)
                        \o (IF Build(arg1) = Incompatible THEN Incompatible ELSE << >>)
            /\ Build(ret1) = (IF Build(arg1) = Incompatible THEN Incompatible ELSE << >>)
    /\ (pc = "CanonicalVersion.CanonicalVersion" /\ IsValid(arg1)) => ret2 = ret1

\* A version with a pre-release and "+incompatible" was made canonical
\* twice.
C10_Witness ==
    /\ pc = "CanonicalVersion.CanonicalVersion"
    /\ IsValid(arg1)
    /\ Build(arg1) = Incompatible
    /\ parse(arg1).prerelease # << >>
    /\ HasSuffix(ret1, Incompatible)
    /\ ret2 = ret1

-----------------------------------------------------------------------------
(* Sort on a list of module versions *)

MaxList == 3

SortPaths == { <<"a", ".", "b">>, <<"a", ".", "c">> }

SortVersions ==
    { base \o build \o file :
        base \in { <<"v", "1", ".", "0", ".", "0">>,
                   <<"v", "1", ".", "0", ".", "0", "-", "p">>,
                   <<"v", "1", ".", "1", "0", ".", "0">> },
        build \in { << >>, <<"+", "b">> },
        file \in { << >>, <<"/", "x">>, <<"/", "y">> } }

SortVersionsOf == [Path : SortPaths, Version : SortVersions]

InitSort == Start(<< >>, << >>)

\* The caller adds a module version to the list it will sort.
AppendVersion ==
    /\ pc = "start"
    /\ Len(arg1) < MaxList
    /\ \E m \in SortVersionsOf : arg1' = Append(arg1, m)
    /\ UNCHANGED <<pc, arg2, ret1, ret2>>

CallSort ==
    /\ pc = "start"
    /\ Returns("Sort", Sort(arg1))

NextSort == AppendVersion \/ CallSort

SpecSort == InitSort /\ [][NextSort]_vars

\* a <= b: Sort's less function does not place b strictly before a.
SortLeq(a, b) == ~SortLess(b, a)

\* C5: over the module versions of a list, <= is reflexive, transitive and
\* antisymmetric.
C5_AsStated ==
    pc = "Sort" =>
        \A i \in DOMAIN arg1, j \in DOMAIN arg1, k \in DOMAIN arg1 :
            LET a == arg1[i]
                b == arg1[j]
                c == arg1[k]
            IN  /\ SortLeq(a, a)
                /\ (SortLeq(a, b) /\ SortLeq(b, c)) => SortLeq(a, c)
                /\ (SortLeq(a, b) /\ SortLeq(b, a)) => a = b

\* a is to come before b by the rule of C6: the same path, and the semantic
\* version of a has lower precedence or has equal precedence and a has the
\* smaller file.
Before(a, b) ==
    /\ a.Path = b.Path
    /\ \/ Compare(VersionPart(a.Version), VersionPart(b.Version)) < 0
       \/ /\ Compare(VersionPart(a.Version), VersionPart(b.Version)) = 0
          /\ StrLess(FilePart(a.Version), FilePart(b.Version))

\* C6: in the sorted list, no module version stands after one it is to come
\* before.
C6_AsStated ==
    pc = "Sort" =>
        \A i \in DOMAIN ret1, j \in DOMAIN ret1 :
            i < j => ~Before(ret1[j], ret1[i])

-----------------------------------------------------------------------------
(* The path checks, EscapePath and UnescapePath on paths with reserved     *)
(* device names                                                            *)

MaxReservedLen == 3

ReservedHeads == { << >>, <<"a", ".", "b", "/">> }

ReservedPieces ==
    { <<"/">>, <<".">>, <<".", "a">>, <<"a">>, <<"C", "O", "N">>, <<"c", "O", "n">>,
      <<"!", "c">>, <<"o", "n">>, <<"n", "u", "l">>, <<"l", "p", "t">>,
      <<"C", "O", "M">>, <<"9">>, <<"0">> }

ReservedInputs ==
    { h \o w : h \in ReservedHeads, w \in Words(ReservedPieces, MaxReservedLen) }

InitReserved == \E p \in ReservedInputs : Start(p, << >>)

CallCheckImportPath ==
    /\ pc = "start"
    /\ Returns("CheckImportPath", [err |-> CheckImportPath(arg1)])

CallCheckPath ==
    /\ pc = "start"
    /\ Returns("CheckPath", [err |-> CheckPath(arg1)])

CallCheckFilePath ==
    /\ pc = "start"
    /\ Returns("CheckFilePath", [err |-> CheckFilePath(arg1)])

NextReserved ==
    \/ CallCheckImportPath
    \/ CallCheckPath
    \/ CallCheckFilePath
    \/ CallEscapePath
    \/ CallUnescapePath

SpecReserved == InitReserved /\ [][NextReserved]_vars

\* The reserved device names of the claim.
ReservedNames ==
    { <<"C", "O", "N">>, <<"P", "R", "N">>, <<"A", "U", "X">>, <<"N", "U", "L">> }
    \cup { <<"C", "O", "M", Digit[k + 1]>> : k \in 1 .. 9 }
    \cup { <<"L", "P", "T", Digit[k + 1]>> : k \in 1 .. 9 }

\* path[a .. b] is a non-empty element of path: it holds no "/" and is
\* bounded by a "/" or an end of path on each side.
IsElement(path, a, b) ==
    /\ a <= b
    /\ a = 1 \/ path[a - 1] = "/"
    /\ b = Len(path) \/ path[b + 1] = "/"
    /\ \A k \in a .. b : path[k] # "/"

\* The portion of elem before its first dot, the whole of elem when it has
\* no dot.
BeforeFirstDot(elem) ==
    IF \E k \in DOMAIN elem : elem[k] = "."
    THEN SubSeq(elem, 1,
                (CHOOSE k \in DOMAIN elem :
                    elem[k] = "." /\ \A j \in 1 .. (k - 1) : elem[j] # ".") - 1)
    ELSE elem

\* s and t are equal when the case of ASCII letters is ignored.
SameIgnoringCase(s, t) ==
    /\ Len(s) = Len(t)
    /\ \A k \in DOMAIN s :
        \/ s[k] = t[k]
        \/ /\ InRange("A", s[k], "Z") \/ InRange("a", s[k], "z")
           /\ InRange("A", t[k], "Z") \/ InRange("a", t[k], "z")
           /\ Code(s[k]) - Code(t[k]) \in { Code("a") - Code("A"), Code("A") - Code("a") }

HasReservedElement(path) ==
    \E a \in DOMAIN path : \E b \in DOMAIN path :
        /\ IsElement(path, a, b)
        /\ \E n \in ReservedNames :
                SameIgnoringCase(BeforeFirstDot(SubSeq(path, a, b)), n)

\* C11: CheckImportPath, CheckPath and CheckFilePath reject every path that
\* has an element whose portion before its first dot is, ignoring ASCII
\* case, a reserved device name; EscapePath refuses such a path, and no
\* path returned by EscapePath or UnescapePath has such an element.
C11_ReservedNames ==
    /\ (pc \in {"CheckImportPath", "CheckPath", "CheckFilePath", "EscapePath"}
            /\ HasReservedElement(arg1)) => ret1.err # Nil
    /\ (pc \in {"EscapePath", "UnescapePath"} /\ ret1.err = Nil)
            => ~HasReservedElement(ret1.val)

\* CheckFilePath refused a path for its element "cOn.a", a reserved name in
\* mixed case before a dot.
C11_Witness ==
    /\ pc = "CheckFilePath"
    /\ HasReservedElement(arg1)
    /\ Contains(arg1, <<"c", "O", "n", ".", "a">>)
    /\ ret1.err = "disallowed as path element component on Windows"

\* UnescapePath refused an escaped path whose unescaped form has the element
\* "Con".
C11_WitnessUnescape ==
    /\ pc = "UnescapePath"
    /\ arg1 = <<"a", ".", "b", "/", "!", "c", "o", "n">>
    /\ ret1.err # Nil

-----------------------------------------------------------------------------
(* EscapePath and EscapeVersion on two inputs that may differ in case only *)

MaxCollideLen == 3

CollidePieces == { <<"a", ".", "b", "/">>, <<"a">>, <<"A">>, <<"U+00E9">> }

CollideInputs == Words(CollidePieces, MaxCollideLen)

InitCollide == \E a \in CollideInputs, b \in CollideInputs : Start(a, b)

NextCollide == CallEscapePathBoth \/ CallEscapeVersionBoth

SpecCollide == InitCollide /\ [][NextCollide]_vars

\* s has no upper-case ASCII letter and no rune outside ASCII.
LowerAsciiOnly(s) ==
    \A k \in DOMAIN s : Code(s[k]) < RuneSelf /\ ~InRange("A", s[k], "Z")

\* C12: a string that EscapePath or EscapeVersion returns has no upper-case
\* ASCII letter and no non-ASCII rune, and two inputs that the same function
\* escapes to strings that are equal when ASCII case is ignored are the same
\* input.
C12_NoCaseCollision ==
    pc \in {"EscapePath2", "EscapeVersion2"} =>
        /\ ret1.err = Nil => LowerAsciiOnly(ret1.val)
        /\ ret2.err = Nil => LowerAsciiOnly(ret2.val)
        /\ (ret1.err = Nil /\ ret2.err = Nil /\ SameIgnoringCase(ret1.val, ret2.val))
                => arg1 = arg2

\* Two versions that differ only in the case of a letter were escaped, to
\* two strings that differ even when case is ignored.
C12_Witness ==
    /\ pc = "EscapeVersion2"
    /\ arg1 # arg2
    /\ SameIgnoringCase(arg1, arg2)
    /\ ret1.err = Nil /\ ret2.err = Nil
    /\ ~SameIgnoringCase(ret1.val, ret2.val)

\* EscapeVersion refused a version that is a valid file name with a
\* non-ASCII letter.
C12_WitnessNonAscii ==
    /\ pc = "EscapeVersion2"
    /\ checkElem(arg1, TRUE) = Nil
    /\ ~LowerAsciiOnly(arg1) /\ \A k \in DOMAIN arg1 : ~InRange("A", arg1[k], "Z")
    /\ ret1.err # Nil

=============================================================================
